---- MODULE Spec2Model ----
(***************************************************************************)
(* Financial-year core of ledgerpro-saas: fiscal periods, per-account      *)
(* year balances, cascade recalculation, year closing and the ledger       *)
(* handlers that tag transactions with a period.                           *)
(*                                                                         *)
(* Money is an integer number of cents (Numeric(15,2)).  Every request     *)
(* handler is one action: it runs against one SQLAlchemy session, and the  *)
(* committed database after the handler is what the next state holds.      *)
(* The variable "last" is the response of the handler that ran last.       *)
(* SpecCalls splits the recalculation in two steps, its reads and its      *)
(* commit, to let calls served by different processes overlap.             *)
(***************************************************************************)
EXTENDS Integers, Sequences, FiniteSets, TLC

\* ---------------------------------------------------------------- bounds
\* financial years a tenant has at most
MaxYears == 3
\* transactions in the ledger at a time
MaxTxns == 1
\* recalculations in flight at a time, each in a server process of its own
MaxCalls == 2
\* recalculations start while the rows' recalculation counters sum to less
\* (one more for each account after the first)
MaxRecalc == 2
\* an injected exception comes after at most this many (year, account) pairs
MaxFailPoint == 2

\* relativedelta(years=1) in _create_next_year, in model days
YearLen == 2

Dates == {2, 3}
\* the (start_date, end_date) pairs an admin submits to create_financial_year
YearRanges == {<<1, 2>>, <<3, 4>>}
\* the is_current flag an admin submits with a new financial year
CurrentFlags == {TRUE}
Amounts == {1}
Tenants == {1}
Accounts == {1}
\* the accounts of a tenant that has opened a second one
TwoAccounts == {1, 2}
\* opening_balance an account was created with
OpeningBalanceOf(a) == IF a = 1 THEN 5 ELSE 0
Categories == {1}
Users == {"u1"}
Roles == {"admin", "user"}

None == 0
OPEN == "open"
CLOSED == "closed"
INCOME == "income"
EXPENSE == "expense"
\* YearClosingAction.CLOSE
CLOSE == "close"

\* the type of the category (Category.transaction_type)
CategoryType(c) == EXPENSE

\* calls: the recalculations that have done their reads and not yet committed,
\* each on a session of its own
VARIABLES years, accounts, txns, balances, audits, last, calls

vars == <<years, accounts, txns, balances, audits, last, calls>>

\* the committed database
db == [years |-> years, accounts |-> accounts, txns |-> txns,
       balances |-> balances, audits |-> audits]

\* ---------------------------------------------------------------- helpers
YearIds == 1..MaxYears
TxnIds == 1..MaxTxns

Min(S) == CHOOSE x \in S : \A y \in S : x <= y

\* a fresh primary key (uuid4): the smallest id not in use
NewId(ids, used) == Min(ids \ used)

Put(f, k, v) == [x \in (DOMAIN f) \cup {k} |-> IF x = k THEN v ELSE f[x]]

Drop(f, k) == [x \in (DOMAIN f) \ {k} |-> f[x]]

\* what the caller of the last handler got back: the handler, its outcome and
\* the errors list of the closing validation
NoResponse == [op |-> "none", result |-> "none", errors |-> {}]

Response(op, result) == [NoResponse EXCEPT !.op = op, !.result = result]

\* ---------------------------------------------------------------- Init
Init ==
    /\ years = << >>
    /\ accounts = [a \in Accounts |->
                     [tenant_id |-> 1,
                      opening_balance |-> OpeningBalanceOf(a),
                      current_balance |-> OpeningBalanceOf(a)]]
    /\ txns = << >>
    /\ balances = << >>
    /\ audits = << >>
    /\ last = NoResponse
    /\ calls = << >>

\* ---------------------------------------------------------------- ledger
\* update_account_balance(account, amount, transaction_type, is_new)
update_account_balance(d, a, amount, ttype, is_new) ==
    LET cur == d.accounts[a].current_balance
        new == IF is_new
               THEN (IF ttype = INCOME THEN cur + amount ELSE cur - amount)
               ELSE (IF ttype = INCOME THEN cur - amount ELSE cur + amount)
    IN [d EXCEPT !.accounts[a].current_balance = new]

\* the rows the query of assign_fiscal_year matches
ContainingYears(d, t, date) ==
    {y \in DOMAIN d.years : /\ d.years[y].tenant_id = t
                            /\ d.years[y].start_date <= date
                            /\ d.years[y].end_date >= date}

\* assign_fiscal_year: .first() of an unordered query is any matching row
assign_fiscal_year(d, t, date) ==
    IF ContainingYears(d, t, date) = {} THEN {None} ELSE ContainingYears(d, t, date)

\* the previous_year query of validate_new_year_transaction:
\* order_by(end_date.desc()).first() is any row with the greatest end_date
PreviousYears(d, t, fy) ==
    LET cand == {y \in DOMAIN d.years : /\ d.years[y].tenant_id = t
                                        /\ d.years[y].end_date < d.years[fy].start_date}
        top == {y \in cand : \A z \in cand : d.years[z].end_date <= d.years[y].end_date}
    IN IF cand = {} THEN {None} ELSE top

\* validate_new_year_transaction: the outcomes (TRUE = raises HTTP 400)
validate_new_year_transaction(d, t, fy) ==
    IF fy = None \/ fy \notin DOMAIN d.years
    THEN {FALSE}
    ELSE {prev # None /\ d.years[prev].status # CLOSED : prev \in PreviousYears(d, t, fy)}

\* check_fiscal_year_permissions: TRUE = raises HTTP 403
check_fiscal_year_permissions(d, fy, role) ==
    /\ fy # None
    /\ fy \in DOMAIN d.years
    /\ d.years[fy].status = CLOSED
    /\ role # "admin"

\* the committed database becomes d
Write(d) ==
    /\ years' = d.years
    /\ accounts' = d.accounts
    /\ txns' = d.txns
    /\ balances' = d.balances
    /\ audits' = d.audits

\* db.commit() of a handler that runs from its first read to its commit in
\* one step
Commit(d) == Write(d) /\ UNCHANGED calls

\* the request ends without a commit: the session's pending work is discarded
Discard == UNCHANGED <<years, accounts, txns, balances, audits, calls>>

\* ---------------------------------------------------------------- periods
\* the overlap query of create_financial_year
OverlapYears(d, t, s, e) ==
    {y \in DOMAIN d.years :
        /\ d.years[y].tenant_id = t
        /\ \/ (d.years[y].start_date <= s /\ d.years[y].end_date >= s)
           \/ (d.years[y].start_date <= e /\ d.years[y].end_date >= e)}

NewYear(t, s, e, cur) ==
    [tenant_id |-> t, start_date |-> s, end_date |-> e, status |-> OPEN,
     is_current |-> cur, closed_by |-> None, total_transactions_count |-> 0]

\* POST /financial-years/ by an admin (require_admin turns everyone else away
\* before the handler runs)
create_financial_year(t, s, e, is_current) ==
    /\ Cardinality(DOMAIN years) < MaxYears
    /\ IF e <= s
       THEN /\ last' = Response("create_financial_year", "invalid")
            /\ Discard
       ELSE IF OverlapYears(db, t, s, e) # {}
       THEN /\ last' = Response("create_financial_year", "overlap")
            /\ Discard
       ELSE LET id == NewId(YearIds, DOMAIN years)
                unset == [y \in DOMAIN years |->
                            IF is_current /\ years[y].tenant_id = t /\ years[y].is_current
                            THEN [years[y] EXCEPT !.is_current = FALSE]
                            ELSE years[y]]
            IN /\ Commit([db EXCEPT !.years = Put(unset, id, NewYear(t, s, e, is_current))])
               /\ last' = Response("create_financial_year", "ok")

\* the other years of the tenant stop being current
UnsetOtherCurrent(ys, t, year_id) ==
    [y \in DOMAIN ys |->
        IF y # year_id /\ ys[y].tenant_id = t /\ ys[y].is_current
        THEN [ys[y] EXCEPT !.is_current = FALSE]
        ELSE ys[y]]

\* an update that lets the dates of a closed year be edited
NoClosedDatesError(d, year_id, start_date, end_date) == FALSE

\* "Cannot modify closed year dates": TRUE = raises HTTP 400
ClosedDatesError(d, year_id, start_date, end_date) ==
    /\ d.years[year_id].status = CLOSED
    /\ (start_date # None \/ end_date # None)

\* PUT /financial-years/{year_id} by an admin.  start_date and end_date are a
\* date or None; is_current is {} when the body leaves it out, else {flag}.
\* The table's CheckConstraint end_date > start_date fails the commit.
update_financial_year(t, year_id, start_date, end_date, is_current) ==
    LET rsp == Response("update_financial_year", "ok")
    IN
    IF year_id \notin DOMAIN years \/ years[year_id].tenant_id # t
    THEN /\ last' = [rsp EXCEPT !.result = "not_found"]
         /\ Discard
    ELSE IF ClosedDatesError(db, year_id, start_date, end_date)
    THEN /\ last' = [rsp EXCEPT !.result = "closed"]
         /\ Discard
    ELSE
      LET unset == IF TRUE \in is_current
                   THEN UnsetOtherCurrent(years, t, year_id)
                   ELSE years
          year == [years[year_id] EXCEPT
                     !.start_date = IF start_date # None THEN start_date ELSE @,
                     !.end_date = IF end_date # None THEN end_date ELSE @,
                     !.is_current = IF is_current = {} THEN @ ELSE TRUE \in is_current]
      IN IF year.end_date <= year.start_date
         THEN /\ last' = [rsp EXCEPT !.result = "error"]
              /\ Discard
         ELSE /\ Commit([db EXCEPT !.years = [unset EXCEPT ![year_id] = year]])
              /\ last' = rsp

\* PUT /financial-years/{year_id}/set-current by an admin
set_current_year(t, year_id) ==
    IF year_id \notin DOMAIN years \/ years[year_id].tenant_id # t
    THEN /\ last' = Response("set_current_year", "not_found")
         /\ Discard
    ELSE /\ Commit([db EXCEPT !.years =
                       [UnsetOtherCurrent(years, t, year_id) EXCEPT
                           ![year_id].is_current = TRUE]])
         /\ last' = Response("set_current_year", "ok")

\* db.delete(year): the rows of the cascade="all, delete-orphan" relationships
\* go with the year, and the transactions of the plain relationship get
\* fiscal_year_id = NULL before the year's DELETE is issued
DeleteYear(d, year_id) ==
    [d EXCEPT
        !.years = Drop(d.years, year_id),
        !.balances = [k \in {x \in DOMAIN d.balances : x[1] # year_id} |-> d.balances[k]],
        !.audits = SelectSeq(d.audits, LAMBDA r : r.financial_year_id # year_id),
        !.txns = [i \in DOMAIN d.txns |->
                    IF d.txns[i].fiscal_year_id = year_id
                    THEN [d.txns[i] EXCEPT !.fiscal_year_id = None]
                    ELSE d.txns[i]]]

\* a delete that does not look at the year's status
NoClosedYearError(d, year_id) == FALSE

\* "Cannot delete a closed financial year": TRUE = raises HTTP 400
ClosedYearError(d, year_id) == d.years[year_id].status = CLOSED

\* DELETE /financial-years/{year_id} by an admin
delete_financial_year(t, year_id) ==
    LET rsp == Response("delete_financial_year", "ok")
    IN
    IF year_id \notin DOMAIN years \/ years[year_id].tenant_id # t
    THEN /\ last' = [rsp EXCEPT !.result = "not_found"]
         /\ Discard
    ELSE IF ClosedYearError(db, year_id)
    THEN /\ last' = [rsp EXCEPT !.result = "closed"]
         /\ Discard
    ELSE IF years[year_id].total_transactions_count > 0
    THEN /\ last' = [rsp EXCEPT !.result = "has_transactions"]
         /\ Discard
    ELSE /\ Commit(DeleteYear(db, year_id))
         /\ last' = rsp

\* ---------------------------------------------------------------- ledger handlers
NewTransaction(t, a, c, ttype, amount, date, fy) ==
    [tenant_id |-> t, account_id |-> a, category_id |-> c, transaction_type |-> ttype,
     amount |-> amount, transaction_date |-> date, fiscal_year_id |-> fy]

\* POST /transactions/
create_transaction(t, a, c, ttype, amount, date) ==
    /\ Cardinality(DOMAIN txns) < MaxTxns
    /\ IF a \notin DOMAIN accounts \/ accounts[a].tenant_id # t
       THEN /\ last' = Response("create_transaction", "not_found")
            /\ Discard
       ELSE IF c # None /\ CategoryType(c) # ttype
       THEN /\ last' = Response("create_transaction", "invalid")
            /\ Discard
       ELSE \E fy \in assign_fiscal_year(db, t, date) :
            \E raises \in validate_new_year_transaction(db, t, fy) :
              IF raises
              THEN /\ last' = Response("create_transaction", "sequence_violation")
                   /\ Discard
              ELSE LET id == NewId(TxnIds, DOMAIN txns)
                       d1 == update_account_balance(db, a, amount, ttype, TRUE)
                       d2 == [d1 EXCEPT !.txns =
                                 Put(d1.txns, id, NewTransaction(t, a, c, ttype, amount, date, fy))]
                   IN /\ Commit(d2)
                      /\ last' = Response("create_transaction", "ok")

\* InvoiceService.create_payment_transaction, as record_payment calls it for a
\* payment the handler has accepted (invoice found, not cancelled, amount valid)
create_payment_transaction(t, a, amount, date) ==
    /\ Cardinality(DOMAIN txns) < MaxTxns
    /\ IF a \notin DOMAIN accounts \/ accounts[a].tenant_id # t
       THEN /\ last' = Response("record_payment", "not_found")
            /\ Discard
       ELSE \E fy \in assign_fiscal_year(db, t, date) :
              LET id == NewId(TxnIds, DOMAIN txns)
                  d1 == [db EXCEPT !.txns =
                            Put(db.txns, id, NewTransaction(t, a, None, INCOME, amount, date, fy))]
                  d2 == [d1 EXCEPT !.accounts[a].current_balance = @ + amount]
              IN /\ Commit(d2)
                 /\ last' = Response("record_payment", "ok")

\* ---------------------------------------------------------------- recalculation
\* the starting_year query: the year with this id, of this tenant
FindYear(d, t, y) == IF y \in DOMAIN d.years /\ d.years[y].tenant_id = t THEN y ELSE None

\* the years query of recalculate_cascade: start_date >= the starting year's
ChainYears(d, t, start) ==
    {y \in DOMAIN d.years : d.years[y].tenant_id = t
                            /\ d.years[y].start_date >= d.years[start].start_date}

\* order_by(FinancialYear.start_date): every listing of the rows with start_date
\* ascending; rows with equal start_date come in an order the database chooses
OrderByStartDate(d, S) ==
    {q \in [1..Cardinality(S) -> S] :
        /\ \A i, j \in DOMAIN q : i # j => q[i] # q[j]
        /\ \A i, j \in DOMAIN q : i < j => d.years[q[i]].start_date <= d.years[q[j]].start_date}

\* an accounts query without the tenant filter
AccountsOfAnyTenant(d, t, ids) ==
    IF ids # {} THEN {a \in DOMAIN d.accounts : a \in ids} ELSE DOMAIN d.accounts

\* the accounts query: the listed accounts of the tenant, or all of them when
\* modified_account_ids is None or empty
RecalcAccounts(d, t, ids) ==
    IF ids # {}
    THEN {a \in DOMAIN d.accounts : d.accounts[a].tenant_id = t /\ a \in ids}
    ELSE {a \in DOMAIN d.accounts : d.accounts[a].tenant_id = t}

RECURSIVE SetToSeq(_)
SetToSeq(S) == IF S = {} THEN << >> ELSE <<Min(S)>> \o SetToSeq(S \ {Min(S)})

\* _get_opening_balance reading the account's opening balance for every year
OpeningFromAccount(d, current_year, a, all_years) == d.accounts[a].opening_balance

\* _get_opening_balance(current_year, account, all_years)
_get_opening_balance(d, current_year, a, all_years) ==
    LET idxs == {i \in DOMAIN all_years : all_years[i] = current_year /\ i > 1}
        previous_year == IF idxs = {} THEN None ELSE all_years[Min(idxs) - 1]
    IN IF previous_year # None /\ <<previous_year, a>> \in DOMAIN d.balances
       THEN d.balances[<<previous_year, a>>].closing_balance
       ELSE d.accounts[a].opening_balance

RECURSIVE SumAmounts(_, _)
SumAmounts(d, ids) ==
    IF ids = {} THEN 0
    ELSE LET i == Min(ids) IN d.txns[i].amount + SumAmounts(d, ids \ {i})

\* sums that see no transaction
SumsOfNothing(d, y, a) == [income_sum |-> 0, expense_sum |-> 0, txn_count |-> 0]

\* _calculate_transaction_sums(year_id, account_id): the conditional sums and
\* the count the query asks for.  A query the database refuses is an exception
\* inside the try block of recalculate_cascade, which the fail points cover.
_calculate_transaction_sums(d, y, a) ==
    LET rows == {i \in DOMAIN d.txns : d.txns[i].fiscal_year_id = y
                                       /\ d.txns[i].account_id = a}
    IN [income_sum |-> SumAmounts(d, {i \in rows : d.txns[i].transaction_type = INCOME}),
        expense_sum |-> SumAmounts(d, {i \in rows : d.txns[i].transaction_type = EXPENSE}),
        txn_count |-> Cardinality(rows)]

\* RecalcOne with the expenses left out of the closing balance
RecalcOneIncomeOnly(d, t, y, a, all_years) ==
    LET opening_balance == _get_opening_balance(d, y, a, all_years)
        sums == _calculate_transaction_sums(d, y, a)
        k == <<y, a>>
        row == [tenant_id |-> t,
                opening_balance |-> opening_balance,
                closing_balance |-> opening_balance + sums.income_sum,
                total_income |-> sums.income_sum,
                total_expense |-> sums.expense_sum,
                transaction_count |-> sums.txn_count,
                is_final |-> IF k \in DOMAIN d.balances THEN d.balances[k].is_final
                             ELSE d.years[y].status = CLOSED,
                recalculation_count |-> IF k \in DOMAIN d.balances
                                        THEN d.balances[k].recalculation_count + 1 ELSE 1]
    IN [d EXCEPT !.balances = Put(d.balances, k, row)]

\* the body of the two loops of recalculate_cascade for one (year, account)
RecalcOne(d, t, y, a, all_years) ==
    LET opening_balance == _get_opening_balance(d, y, a, all_years)
        sums == _calculate_transaction_sums(d, y, a)
        closing_balance == opening_balance + sums.income_sum - sums.expense_sum
        k == <<y, a>>
        row == IF k \in DOMAIN d.balances
               THEN [d.balances[k] EXCEPT
                        !.opening_balance = opening_balance,
                        !.closing_balance = closing_balance,
                        !.total_income = sums.income_sum,
                        !.total_expense = sums.expense_sum,
                        !.transaction_count = sums.txn_count,
                        !.recalculation_count = @ + 1]
               ELSE [tenant_id |-> t,
                     opening_balance |-> opening_balance,
                     closing_balance |-> closing_balance,
                     total_income |-> sums.income_sum,
                     total_expense |-> sums.expense_sum,
                     transaction_count |-> sums.txn_count,
                     is_final |-> (d.years[y].status = CLOSED),
                     recalculation_count |-> 1]
    IN [d EXCEPT !.balances = Put(d.balances, k, row)]

\* the (year, account) pairs in the order the loops visit them
RECURSIVE RecalcPairs(_, _)
RecalcPairs(all_years, accts) ==
    IF all_years = << >> THEN << >>
    ELSE [i \in 1..Len(accts) |-> <<Head(all_years), accts[i]>>]
             \o RecalcPairs(Tail(all_years), accts)

\* the session after the loops have processed the first n pairs
RECURSIVE RecalcLoop(_, _, _, _, _)
RecalcLoop(d, t, pairs, n, all_years) ==
    IF n = 0 THEN d
    ELSE RecalcOne(RecalcLoop(d, t, pairs, n - 1, all_years), t,
                   pairs[n][1], pairs[n][2], all_years)

\* a recalculation that leaves the accounts' current balances alone
KeepCurrentBalances(d, most_recent_year, accts) == d

\* "Update current balances for accounts (use most recent year's closing)"
RECURSIVE UpdateCurrentBalances(_, _, _)
UpdateCurrentBalances(d, most_recent_year, accts) ==
    IF accts = {} THEN d
    ELSE LET a == Min(accts)
             d1 == IF <<most_recent_year, a>> \in DOMAIN d.balances
                   THEN [d EXCEPT !.accounts[a].current_balance =
                            d.balances[<<most_recent_year, a>>].closing_balance]
                   ELSE d
         IN UpdateCurrentBalances(d1, most_recent_year, accts \ {a})

\* a rollback that leaves the session's pending writes in place
KeepSession(committed, session) == session

\* self.db.rollback(): the session is back at what was last committed
Rollback(committed, session) == committed

NoFail == 0 - 1

\* the points at which an exception can leave the try block of
\* recalculate_cascade: after n (year, account) pairs, n = number of pairs
\* standing for the balance update and the commit
FailPoints(d, t, start, ids) ==
    IF FindYear(d, t, start) = None THEN {NoFail}
    ELSE {NoFail} \cup
         (0..(Cardinality(ChainYears(d, t, start)) * Cardinality(RecalcAccounts(d, t, ids))))

\* recalculate_cascade(starting_year_id, modified_account_ids), run on a session
\* with nothing pending.  years is the listing the years query returned, fail
\* the point at which an exception is raised (NoFail: none).
\* Returns the committed database and the RecalculationResult.
recalculate_cascade(d, t, starting_year_id, ids, all_years, fail) ==
    IF FindYear(d, t, starting_year_id) = None
    THEN [db |-> d, success |-> FALSE, affected_years |-> << >>, affected_accounts |-> {}]
    ELSE LET accts == RecalcAccounts(d, t, ids)
             pairs == RecalcPairs(all_years, SetToSeq(accts))
             n == IF fail = NoFail THEN Len(pairs) ELSE fail
             d1 == RecalcLoop(d, t, pairs, n, all_years)
             d2 == UpdateCurrentBalances(d1, all_years[Len(all_years)], accts)
         IN IF fail = NoFail
            THEN [db |-> d2, success |-> TRUE,
                  affected_years |-> all_years, affected_accounts |-> accts]
            ELSE [db |-> Rollback(d, d1), success |-> FALSE,
                  affected_years |-> all_years, affected_accounts |-> accts]

RECURSIVE TotalRecalculations(_, _)
TotalRecalculations(b, keys) ==
    IF keys = {} THEN 0
    ELSE LET k == CHOOSE x \in keys : TRUE
         IN b[k].recalculation_count + TotalRecalculations(b, keys \ {k})

\* the recalculation counters of the rows together are below the model's
\* bound, which is one more for each account after the first
RecalcBounded(d, t, start) ==
    TotalRecalculations(d.balances, DOMAIN d.balances)
        < MaxRecalc + Cardinality(DOMAIN d.accounts) - 1

\* a call of FiscalYearService.recalculate_cascade on a fresh session; the
\* endpoint POST /{year_id}/recalculate is the call with no account list
recalculate(t, year_id, ids, fail) ==
    /\ RecalcBounded(db, t, year_id)
    /\ fail \in FailPoints(db, t, year_id, ids)
    /\ IF FindYear(db, t, year_id) = None
       THEN /\ last' = Response("recalculate", "not_found")
            /\ Discard
       ELSE \E all_years \in OrderByStartDate(db, ChainYears(db, t, year_id)) :
              LET r == recalculate_cascade(db, t, year_id, ids, all_years, fail)
              IN /\ Commit(r.db)
                 /\ last' = Response("recalculate", IF r.success THEN "ok" ELSE "error")

\* ---------------------------------------------------------------- closing
\* float(balance.x) in the snapshot and Decimal(str(x)) when it is read back:
\* a Numeric(15,2) value has at most 15 significant digits, which a double
\* carries exactly through repr, so the value read back is the value stored
SnapshotFloat(x) == x

\* a validation that never objects to the year's status
NoClosedError(d, year_id) == {}

\* "Check if already closed"
AlreadyClosedError(d, year_id) ==
    IF d.years[year_id].status = CLOSED THEN {"already_closed"} ELSE {}

\* a validation that never objects to missing categories
NoUncategorizedError(d, year_id) == {}

\* "Count uncategorized transactions": an error whenever there is one
UncategorizedError(d, year_id) ==
    LET uncategorized == {i \in DOMAIN d.txns : /\ d.txns[i].fiscal_year_id = year_id
                                                /\ d.txns[i].category_id = None}
    IN IF Cardinality(uncategorized) > 0 THEN {"uncategorized"} ELSE {}

\* validate_year_closing(year_id): the errors list and the transaction count
validate_year_closing(d, t, year_id) ==
    IF FindYear(d, t, year_id) = None
    THEN [can_close |-> FALSE, errors |-> {"not_found"}, total_transactions |-> 0]
    ELSE LET in_year == {i \in DOMAIN d.txns : d.txns[i].fiscal_year_id = year_id}
             errors == AlreadyClosedError(d, year_id) \cup UncategorizedError(d, year_id)
         IN [can_close |-> errors = {}, errors |-> errors,
             total_transactions |-> Cardinality(in_year)]

\* _create_balance_snapshot(year_id): one entry per balance row of the year
\* whose account exists
_create_balance_snapshot(d, year_id) ==
    {[account_id |-> k[2],
      opening_balance |-> SnapshotFloat(d.balances[k].opening_balance),
      closing_balance |-> SnapshotFloat(d.balances[k].closing_balance),
      total_income |-> SnapshotFloat(d.balances[k].total_income),
      total_expense |-> SnapshotFloat(d.balances[k].total_expense),
      transaction_count |-> d.balances[k].transaction_count]
        : k \in {k \in DOMAIN d.balances : k[1] = year_id /\ k[2] \in DOMAIN d.accounts}}

\* a seeding that copies the closed year's opening balance
SeedRowFromOpening(t, e) ==
    [tenant_id |-> t,
     opening_balance |-> SnapshotFloat(e.opening_balance),
     closing_balance |-> SnapshotFloat(e.opening_balance),
     total_income |-> 0,
     total_expense |-> 0,
     transaction_count |-> 0,
     is_final |-> FALSE,
     recalculation_count |-> 0]

\* the AccountYearBalance _create_next_year adds for one snapshot entry
SeedRow(t, e) ==
    LET opening_balance == SnapshotFloat(e.closing_balance)
    IN [tenant_id |-> t,
        opening_balance |-> opening_balance,
        closing_balance |-> opening_balance,
        total_income |-> 0,
        total_expense |-> 0,
        transaction_count |-> 0,
        is_final |-> FALSE,
        recalculation_count |-> 0]

\* the balance rows with one new row per snapshot entry
SeedBalances(b, t, next_year, snapshot) ==
    LET seeded == {<<next_year, e.account_id>> : e \in snapshot}
    IN [k \in (DOMAIN b) \cup seeded |->
          IF k \in seeded
          THEN SeedRow(t, CHOOSE e \in snapshot : e.account_id = k[2])
          ELSE b[k]]

\* _create_next_year(current_year, balance_snapshot): the session with the new
\* year (id next_year) and its opening balances
_create_next_year(d, t, current_year, balance_snapshot, next_year) ==
    LET next_start == d.years[current_year].end_date + 1
        next_end == next_start + YearLen - 1
        d1 == [d EXCEPT !.years = Put(d.years, next_year,
                                     NewYear(t, next_start, next_end, TRUE))]
    IN [d1 EXCEPT !.balances = SeedBalances(d1.balances, t, next_year, balance_snapshot)]

\* a closing that leaves is_final as it is
LeaveUnmarked(d, year_id) == d

\* "Mark all balances as final"
MarkFinal(d, year_id) ==
    [d EXCEPT !.balances = [k \in DOMAIN d.balances |->
                              IF k[1] = year_id
                              THEN [d.balances[k] EXCEPT !.is_final = TRUE]
                              ELSE d.balances[k]]]

\* where close_financial_year can raise: inside the recalculation (a fail
\* point of recalculate_cascade), or at one of its own steps after it
CloseSteps == {"freeze", "status", "audit", "next_year", "commit"}

\* the session when the exception is raised at this step
CloseUpTo(step, d0, d1, d2, d3, d4) ==
    CASE step = "freeze" -> d0
      [] step = "status" -> d1
      [] step = "audit" -> d2
      [] step = "next_year" -> d3
      [] step = "commit" -> d4

\* close_financial_year(year_id, user_id, validate_categories, create_next_year)
\* POST /{year_id}/close by an admin, and the service method it calls
close_financial_year(t, year_id, user_id, validate_categories, create_next_year, fail) ==
    /\ RecalcBounded(db, t, year_id)
    /\ fail \in FailPoints(db, t, year_id, {})
    /\ create_next_year => Cardinality(DOMAIN years) < MaxYears
    /\ LET validation == validate_year_closing(db, t, year_id)
           rsp == Response("close", "ok")
       IN IF ~validation.can_close
          THEN /\ last' = [rsp EXCEPT !.result = "validation_failed",
                                      !.errors = validation.errors]
               /\ Discard
          ELSE \E all_years \in OrderByStartDate(db, ChainYears(db, t, year_id)) :
            LET r == recalculate_cascade(db, t, year_id, {}, all_years, fail)
                d1 == MarkFinal(r.db, year_id)
                d2 == [d1 EXCEPT !.years[year_id].status = CLOSED,
                                 !.years[year_id].closed_by = user_id,
                                 !.years[year_id].is_current = FALSE]
                balance_snapshot == _create_balance_snapshot(d2, year_id)
                audit == [tenant_id |-> t,
                          financial_year_id |-> year_id,
                          action |-> CLOSE,
                          balance_snapshot |-> balance_snapshot,
                          performed_by |-> user_id,
                          total_accounts |-> Cardinality(balance_snapshot),
                          total_transactions |-> validation.total_transactions]
                d3 == [d2 EXCEPT !.audits = Append(d2.audits, audit)]
                next_year_id == NewId(YearIds, DOMAIN d3.years)
                d4 == IF create_next_year
                      THEN _create_next_year(d3, t, year_id, balance_snapshot, next_year_id)
                      ELSE d3
            IN IF ~r.success
               THEN /\ Commit(r.db)
                    /\ last' = [rsp EXCEPT !.result = "recalculation_failed"]
               ELSE \/ /\ Commit(d4)
                       /\ last' = rsp
                    \/ \E step \in CloseSteps :
                          /\ Commit(Rollback(r.db, CloseUpTo(step, r.db, d1, d2, d3, d4)))
                          /\ last' = [rsp EXCEPT !.result = "error"]

\* ---------------------------------------------------------------- amendment
\* a field a TransactionUpdate body leaves unset
Unset == 0 - 1

\* the recalculation update_transaction and delete_transaction trigger after
\* their commit; its result is not looked at
TriggerRecalculation(d, t, year_id, a, all_years, fail) ==
    recalculate_cascade(d, t, year_id, {a}, all_years, fail).db

\* PUT /transactions/{transaction_id}
update_transaction(t, role, id, account_id, category_id, amount, date, fail) ==
    LET rsp == Response("update_transaction", "ok")
    IN
    IF id \notin DOMAIN txns \/ txns[id].tenant_id # t
    THEN /\ fail = NoFail
         /\ last' = [rsp EXCEPT !.result = "not_found"]
         /\ Discard
    ELSE IF check_fiscal_year_permissions(db, txns[id].fiscal_year_id, role)
    THEN /\ fail = NoFail
         /\ last' = [rsp EXCEPT !.result = "forbidden"]
         /\ Discard
    ELSE IF account_id \notin {Unset, None}
            /\ (account_id \notin DOMAIN accounts \/ accounts[account_id].tenant_id # t)
    THEN /\ fail = NoFail
         /\ last' = [rsp EXCEPT !.result = "not_found"]
         /\ Discard
    ELSE
      LET old == txns[id]
          old_fiscal_year_id == old.fiscal_year_id
          old_account == old.account_id
          new_account == IF account_id \notin {Unset, None} THEN account_id ELSE old_account
          d1 == update_account_balance(db, old_account, old.amount,
                                       old.transaction_type, FALSE)
          applied == [old EXCEPT
                        !.account_id = IF account_id = Unset THEN @ ELSE account_id,
                        !.category_id = IF category_id = Unset THEN @ ELSE category_id,
                        !.amount = IF amount = Unset THEN @ ELSE amount,
                        !.transaction_date = IF date = Unset THEN @ ELSE date]
      IN
      \* account_id: null is set on the row and violates NOT NULL at the commit
      IF account_id = None
      THEN /\ fail = NoFail
           /\ last' = [rsp EXCEPT !.result = "error"]
           /\ Discard
      ELSE
      \E new_fy \in (IF date = Unset THEN {old_fiscal_year_id}
                     ELSE assign_fiscal_year(d1, t, applied.transaction_date)) :
      \E raises \in (IF date = Unset THEN {FALSE}
                     ELSE validate_new_year_transaction(d1, t, new_fy)) :
        IF raises
        THEN /\ fail = NoFail
             /\ last' = [rsp EXCEPT !.result = "sequence_violation"]
             /\ Discard
        ELSE
          LET txn == [applied EXCEPT !.fiscal_year_id = new_fy]
              d2 == [d1 EXCEPT !.txns[id] = txn]
              d3 == update_account_balance(d2, new_account, txn.amount,
                                           txn.transaction_type, TRUE)
              recalc_year_id ==
                  IF old_fiscal_year_id # None /\ old_fiscal_year_id # txn.fiscal_year_id
                  THEN old_fiscal_year_id
                  ELSE IF txn.fiscal_year_id # None
                          /\ txn.fiscal_year_id \in DOMAIN d3.years
                          /\ d3.years[txn.fiscal_year_id].status = CLOSED
                  THEN txn.fiscal_year_id
                  ELSE None
          IN IF recalc_year_id = None
             THEN /\ fail = NoFail
                  /\ Commit(d3)
                  /\ last' = rsp
             ELSE /\ RecalcBounded(d3, t, recalc_year_id)
                  /\ fail \in FailPoints(d3, t, recalc_year_id, {txn.account_id})
                  /\ \E all_years \in OrderByStartDate(d3, ChainYears(d3, t, recalc_year_id)) :
                        Commit(TriggerRecalculation(d3, t, recalc_year_id, txn.account_id,
                                                    all_years, fail))
                  /\ last' = rsp

\* DELETE /transactions/{transaction_id}
delete_transaction(t, role, id, fail) ==
    LET rsp == Response("delete_transaction", "ok")
    IN
    IF id \notin DOMAIN txns \/ txns[id].tenant_id # t
    THEN /\ fail = NoFail
         /\ last' = [rsp EXCEPT !.result = "not_found"]
         /\ Discard
    ELSE IF check_fiscal_year_permissions(db, txns[id].fiscal_year_id, role)
    THEN /\ fail = NoFail
         /\ last' = [rsp EXCEPT !.result = "forbidden"]
         /\ Discard
    ELSE
      LET deleted_fiscal_year_id == txns[id].fiscal_year_id
          deleted_account_id == txns[id].account_id
          d1 == update_account_balance(db, deleted_account_id, txns[id].amount,
                                       txns[id].transaction_type, FALSE)
          d2 == [d1 EXCEPT !.txns = Drop(d1.txns, id)]
      IN IF deleted_fiscal_year_id # None
            /\ deleted_fiscal_year_id \in DOMAIN d2.years
            /\ d2.years[deleted_fiscal_year_id].status = CLOSED
         THEN /\ RecalcBounded(d2, t, deleted_fiscal_year_id)
              /\ fail \in FailPoints(d2, t, deleted_fiscal_year_id, {deleted_account_id})
              /\ \E all_years \in
                       OrderByStartDate(d2, ChainYears(d2, t, deleted_fiscal_year_id)) :
                    Commit(TriggerRecalculation(d2, t, deleted_fiscal_year_id,
                                                deleted_account_id, all_years, fail))
              /\ last' = rsp
         ELSE /\ fail = NoFail
              /\ Commit(d2)
              /\ last' = rsp

\* ---------------------------------------------------------------- specification
\* where a handler's recalculation is made to raise, if at all
Fails == {NoFail} \cup (0..MaxFailPoint)

\* the TransactionUpdate bodies a client submits: one field each
UpdateBodies ==
    {[account_id |-> a, category_id |-> Unset, amount |-> Unset, date |-> Unset] :
        a \in DOMAIN accounts}
    \cup {[account_id |-> Unset, category_id |-> Unset, amount |-> Unset, date |-> dt] :
            dt \in Dates}
    \cup {[account_id |-> Unset, category_id |-> c, amount |-> Unset, date |-> Unset] :
            c \in Categories \cup {None}}
    \cup {[account_id |-> Unset, category_id |-> Unset, amount |-> m, date |-> Unset] :
            m \in Amounts}

CreatePeriod ==
    \E t \in Tenants, r \in YearRanges, cur \in CurrentFlags :
        create_financial_year(t, r[1], r[2], cur)

CreateTransaction ==
    \E t \in Tenants, a \in DOMAIN accounts, c \in Categories \cup {None},
       ttype \in {INCOME, EXPENSE}, amount \in Amounts, date \in Dates :
        create_transaction(t, a, c, ttype, amount, date)

RecordPayment ==
    \E t \in Tenants, a \in DOMAIN accounts, amount \in Amounts, date \in Dates :
        create_payment_transaction(t, a, amount, date)

UpdateTransaction ==
    \E t \in Tenants, role \in Roles, id \in TxnIds, b \in UpdateBodies, fail \in Fails :
        update_transaction(t, role, id, b.account_id, b.category_id, b.amount, b.date, fail)

DeleteTransaction ==
    \E t \in Tenants, role \in Roles, id \in TxnIds, fail \in Fails :
        delete_transaction(t, role, id, fail)

Recalculate ==
    \E t \in Tenants, y \in YearIds, ids \in {{}} \cup {{a} : a \in DOMAIN accounts}, fail \in Fails :
        recalculate(t, y, ids, fail)

ClosePeriod ==
    \E t \in Tenants, y \in YearIds, u \in Users, vc \in BOOLEAN, cn \in BOOLEAN,
       fail \in Fails :
        close_financial_year(t, y, u, vc, cn, fail)

Next ==
    \/ CreatePeriod
    \/ CreateTransaction
    \/ RecordPayment
    \/ UpdateTransaction
    \/ DeleteTransaction
    \/ Recalculate
    \/ ClosePeriod

Spec == Init /\ [][Next]_vars

\* ---------------------------------------------------------------- period administration
\* the end_date an admin moves a year's end to
EditEnds == {3}

\* the FinancialYearUpdate bodies an admin submits: one field each, or a
\* new end_date together with is_current = true
PeriodBodies ==
    {[start_date |-> None, end_date |-> e, is_current |-> c] : e \in EditEnds, c \in {{}, {TRUE}}}
    \cup {[start_date |-> None, end_date |-> None, is_current |-> {f}] : f \in BOOLEAN}

UpdatePeriod ==
    \E t \in Tenants, y \in YearIds, b \in PeriodBodies :
        update_financial_year(t, y, b.start_date, b.end_date, b.is_current)

SetCurrentPeriod ==
    \E t \in Tenants, y \in YearIds : set_current_year(t, y)

DeletePeriod ==
    \E t \in Tenants, y \in YearIds : delete_financial_year(t, y)

\* the handlers that write financial_years and year_closing_audit, with the
\* recorded payments that tag transactions to the periods
NextPeriods ==
    \/ CreatePeriod
    \/ UpdatePeriod
    \/ SetCurrentPeriod
    \/ DeletePeriod
    \/ ClosePeriod
    \/ RecordPayment

SpecPeriods == Init /\ [][NextPeriods]_vars

\* ---------------------------------------------------------------- calls in flight
CallIds == 1..MaxCalls

\* what the commit of a session leaves in the database when other sessions
\* have committed since this one read: the rows and accounts the session
\* changed or added are written, everything else is as committed.  A row added
\* by both stands once, as account_year_balances is keyed here by (year,
\* account).
WriteBack(committed, read, session) ==
    LET written == {k \in DOMAIN session.balances :
                       k \notin DOMAIN read.balances
                       \/ session.balances[k] # read.balances[k]}
    IN [committed EXCEPT
          !.balances = [k \in (DOMAIN committed.balances) \cup written |->
                          IF k \in written THEN session.balances[k]
                          ELSE committed.balances[k]],
          !.accounts = [a \in DOMAIN committed.accounts |->
                          IF session.accounts[a] # read.accounts[a]
                          THEN session.accounts[a] ELSE committed.accounts[a]]]

\* recalculate_cascade up to the end of its reads: the starting year, the
\* years and accounts listings, the transaction sums and the existing rows.
\* Nothing is locked and nothing tells a second call that one is under way.
begin_recalculate(c, t, year_id, ids) ==
    /\ c \notin DOMAIN calls
    /\ RecalcBounded(db, t, year_id)
    /\ FindYear(db, t, year_id) # None
    /\ calls' = Put(calls, c, [tenant_id |-> t, year_id |-> year_id, ids |-> ids, read |-> db])
    /\ UNCHANGED <<years, accounts, txns, balances, audits, last>>

\* recalculate_cascade from its first write to db.commit() (or the rollback)
finish_recalculate(c, fail) ==
    /\ c \in DOMAIN calls
    /\ RecalcBounded(db, calls[c].tenant_id, calls[c].year_id)
    /\ LET call == calls[c]
       IN /\ fail \in FailPoints(call.read, call.tenant_id, call.year_id, call.ids)
          /\ \E all_years \in OrderByStartDate(call.read,
                                 ChainYears(call.read, call.tenant_id, call.year_id)) :
               LET r == recalculate_cascade(call.read, call.tenant_id, call.year_id,
                                            call.ids, all_years, fail)
               IN /\ Write(WriteBack(db, call.read, r.db))
                  /\ last' = Response("recalculate", IF r.success THEN "ok" ELSE "error")
    /\ calls' = Drop(calls, c)

BeginRecalculate ==
    \E c \in CallIds, t \in Tenants, y \in YearIds, ids \in {{}} \cup {{a} : a \in DOMAIN accounts} :
        begin_recalculate(c, t, y, ids)

FinishRecalculate ==
    \E c \in CallIds, fail \in Fails : finish_recalculate(c, fail)

\* recalculations that run in several server processes, among the requests
\* that create periods and record payments
NextCalls ==
    \/ CreatePeriod
    \/ RecordPayment
    \/ BeginRecalculate
    \/ FinishRecalculate

SpecCalls == Init /\ [][NextCalls]_vars

\* ---------------------------------------------------------------- two accounts
\* a tenant with two money accounts and nothing else yet
InitTwoAccounts ==
    /\ years = << >>
    /\ accounts = [a \in TwoAccounts |->
                     [tenant_id |-> 1,
                      opening_balance |-> OpeningBalanceOf(a),
                      current_balance |-> OpeningBalanceOf(a)]]
    /\ txns = << >>
    /\ balances = << >>
    /\ audits = << >>
    /\ last = NoResponse
    /\ calls = << >>

\* an amendment that names the account only
MoveTransaction ==
    \E t \in Tenants, role \in Roles, id \in TxnIds, a \in DOMAIN accounts, fail \in Fails :
        update_transaction(t, role, id, a, Unset, Unset, Unset, fail)

\* the ledger of that tenant: periods are created and closed, transactions
\* are created and moved between the accounts
NextAccounts ==
    \/ CreatePeriod
    \/ CreateTransaction
    \/ MoveTransaction
    \/ ClosePeriod

SpecAccounts == InitTwoAccounts /\ [][NextAccounts]_vars

\* ---------------------------------------------------------------- a later account
\* POST /accounts/: the key a stands for the account's name, which the handler
\* refuses when the tenant has it already
create_account(t, a, opening_balance) ==
    IF a \in DOMAIN accounts
    THEN /\ last' = Response("create_account", "exists")
         /\ Discard
    ELSE /\ Commit([db EXCEPT !.accounts =
                       Put(accounts, a, [tenant_id |-> t,
                                         opening_balance |-> opening_balance,
                                         current_balance |-> opening_balance])])
         /\ last' = Response("create_account", "ok")

CreateAccount ==
    \E t \in Tenants, a \in TwoAccounts : create_account(t, a, OpeningBalanceOf(a))

\* a tenant that opens its second account at any time between its payments,
\* recalculations and closings
NextNewAccount ==
    \/ CreatePeriod
    \/ CreateAccount
    \/ RecordPayment
    \/ Recalculate
    \/ ClosePeriod

SpecNewAccount == Init /\ [][NextNewAccount]_vars

\* ---------------------------------------------------------------- two tenants
BothTenants == {1, 2}

\* two tenants with one money account each: account a belongs to tenant a
InitTenants ==
    /\ years = << >>
    /\ accounts = [a \in TwoAccounts |->
                     [tenant_id |-> a,
                      opening_balance |-> OpeningBalanceOf(a),
                      current_balance |-> OpeningBalanceOf(a)]]
    /\ txns = << >>
    /\ balances = << >>
    /\ audits = << >>
    /\ last = NoResponse
    /\ calls = << >>

\* POST /{year_id}/validate-closing: the validation is returned, nothing is
\* written
validate_closing(t, year_id) ==
    LET validation == validate_year_closing(db, t, year_id)
        result == IF "not_found" \in validation.errors THEN "not_found"
                  ELSE IF validation.can_close THEN "ok" ELSE "cannot_close"
    IN /\ last' = [Response("validate_closing", result) EXCEPT !.errors = validation.errors]
       /\ Discard

\* the account lists a caller of either tenant passes: its own account, the
\* other tenant's, both, or none
TenantAccountLists == SUBSET TwoAccounts

\* each tenant opens its books with the same first period
FirstRanges == {<<1, 2>>}

\* a recalculation runs through, or raises before its first row
TenantFails == {NoFail, 0}

CreatePeriodOf ==
    \E t \in BothTenants, r \in FirstRanges, cur \in CurrentFlags :
        create_financial_year(t, r[1], r[2], cur)

RecordPaymentOf ==
    \E t \in BothTenants, a \in DOMAIN accounts, amount \in Amounts, date \in Dates :
        create_payment_transaction(t, a, amount, date)

RecalculateOf ==
    \E t \in BothTenants, y \in YearIds, ids \in TenantAccountLists, fail \in TenantFails :
        recalculate(t, y, ids, fail)

ValidateClosingOf ==
    \E t \in BothTenants, y \in YearIds : validate_closing(t, y)

\* closings with validate_categories at its default
ClosePeriodOf ==
    \E t \in BothTenants, y \in YearIds, u \in Users, vc \in {TRUE}, cn \in BOOLEAN,
       fail \in TenantFails :
        close_financial_year(t, y, u, vc, cn, fail)

\* both tenants keep their books in the one database
NextTenants ==
    \/ CreatePeriodOf
    \/ RecordPaymentOf
    \/ RecalculateOf
    \/ ValidateClosingOf
    \/ ClosePeriodOf

SpecTenants == InitTenants /\ [][NextTenants]_vars

\* ---------------------------------------------------------------- properties
\* the periods of P's tenant that come immediately before P by start date
Predecessors(P) ==
    LET earlier == {y \in DOMAIN years : /\ years[y].tenant_id = years[P].tenant_id
                                         /\ years[y].start_date < years[P].start_date}
    IN {y \in earlier : \A z \in earlier : years[z].start_date <= years[y].start_date}

\* C1: balance chain invariant.  In every reachable state, every balance row
\* (P, A) opens with the closing balance of the row of A in the period
\* immediately before P by start date (when that period has a row for A), and
\* with A's base opening balance when no period comes before P.
C1_BalanceChain ==
    \A k \in DOMAIN balances :
        IF Predecessors(k[1]) = {}
        THEN balances[k].opening_balance = accounts[k[2]].opening_balance
        ELSE \A p \in Predecessors(k[1]) :
                <<p, k[2]>> \in DOMAIN balances =>
                    balances[k].opening_balance = balances[<<p, k[2]>>].closing_balance

\* C2: closing-balance arithmetic.  Every balance row of every reachable
\* state, whoever wrote it, has
\* closing_balance = opening_balance + total_income - total_expense.
C2_ClosingArithmetic ==
    \A k \in DOMAIN balances :
        balances[k].closing_balance =
            balances[k].opening_balance + balances[k].total_income
                - balances[k].total_expense

\* a closed period's recalculated row with an expense next to the row a closing
\* seeded from it
C2_Witness ==
    \E k, j \in DOMAIN balances :
        /\ balances[k].recalculation_count > 0
        /\ balances[k].total_expense > 0
        /\ balances[j].recalculation_count = 0
        /\ balances[j].opening_balance = balances[k].closing_balance
        /\ balances[j].opening_balance # accounts[j[2]].opening_balance

\* the account lists a caller passes to recalculate_cascade
AccountLists == {{}} \cup {{a} : a \in Accounts}

\* the amounts of the transactions of one type tagged to (P, a)
TaggedSum(tx, P, a, ttype) ==
    SumAmounts([txns |-> tx], {i \in DOMAIN tx : /\ tx[i].fiscal_year_id = P
                                                 /\ tx[i].account_id = a
                                                 /\ tx[i].transaction_type = ttype})

TaggedCount(tx, P, a) ==
    Cardinality({i \in DOMAIN tx : tx[i].fiscal_year_id = P /\ tx[i].account_id = a})

\* the rows b of account a along the listing q carry the sums of the tagged
\* transactions tx, and each row after the first opens with the closing
\* balance of the row before it
Propagated(b, tx, q, a) ==
    \A i \in DOMAIN q :
        /\ <<q[i], a>> \in DOMAIN b
        /\ b[<<q[i], a>>].total_income = TaggedSum(tx, q[i], a, INCOME)
        /\ b[<<q[i], a>>].total_expense = TaggedSum(tx, q[i], a, EXPENSE)
        /\ b[<<q[i], a>>].transaction_count = TaggedCount(tx, q[i], a)
        /\ i > 1 => b[<<q[i], a>>].opening_balance = b[<<q[i - 1], a>>].closing_balance

\* C3: cascade propagation.  After one successful recalculate(S, accounts),
\* for every account in scope and the periods with start_date >= S.start_date
\* in ascending start-date order, each row's total_income, total_expense and
\* transaction_count are the sums over the transactions tagged to it, and each
\* period after S opens with the closing balance just computed for the period
\* before it.
C3_CascadePropagation ==
    [][(last'.op = "recalculate" /\ last'.result = "ok") =>
          \A t \in Tenants, S \in YearIds, ids \in AccountLists :
              recalculate(t, S, ids, NoFail) =>
                  \E q \in OrderByStartDate(db, ChainYears(db, t, S)) :
                      \A a \in RecalcAccounts(db, t, ids) :
                          Propagated(balances', txns', q, a)]_vars

\* a recalculation has run over a chain of two periods whose first row closes
\* away from the account's opening balance
C3_Witness ==
    /\ last.op = "recalculate"
    /\ last.result = "ok"
    /\ \E k, j \in DOMAIN balances :
          /\ k[2] = j[2]
          /\ years[k[1]].start_date < years[j[1]].start_date
          /\ balances[k].recalculation_count > 0
          /\ balances[j].recalculation_count > 0
          /\ balances[k].closing_balance # balances[k].opening_balance
          /\ balances[j].opening_balance = balances[k].closing_balance

\* the balance row of a period is out of date: it does not count the
\* transactions now tagged to it
Stale(k) == balances[k].transaction_count # TaggedCount(txns, k[1], k[2])

\* C4: recalculation is all-or-nothing.  A recalculate that fails, after any
\* number of (period, account) pairs, leaves every balance row and every
\* account's current balance as they were before the call.
C4_RecalculationAtomic ==
    [][(last'.op = "recalculate" /\ last'.result = "error") =>
          (balances' = balances /\ accounts' = accounts)]_vars

\* a recalculation has failed over rows that a successful run would have
\* rewritten
C4_Witness ==
    /\ last.op = "recalculate"
    /\ last.result = "error"
    /\ \E k \in DOMAIN balances : Stale(k)

\* C5: closing is all-or-nothing.  A closePeriod that fails after validation
\* (in the recalculation, the freezing, the status change, the audit write or
\* the creation of the next period) leaves the datastore as it was: the period
\* OPEN, no balance row changed or final, no audit record, no new period.
C5_ClosingAtomic ==
    [][(last'.op = "close" /\ last'.result \in {"recalculation_failed", "error"}) =>
          (years' = years /\ balances' = balances /\ audits' = audits
              /\ accounts' = accounts)]_vars

\* the period has a transaction without a category
Uncategorized(y) ==
    \E i \in DOMAIN txns : txns[i].fiscal_year_id = y /\ txns[i].category_id = None

FinalFlags(b) == [k \in DOMAIN b |-> b[k].is_final]

C7_ClosedStaysClosed ==
    [][last'.op = "close" =>
          \A t \in Tenants, y \in DOMAIN years, u \in Users, vc \in BOOLEAN,
             cn \in BOOLEAN, fail \in Fails :
              (years[y].status = CLOSED /\ close_financial_year(t, y, u, vc, cn, fail)) =>
                  /\ last'.result = "validation_failed"
                  /\ "already_closed" \in last'.errors
                  /\ years' = years
                  /\ balances' = balances
                  /\ audits' = audits]_vars

\* a closing of a CLOSED period has been refused
C7_Witness ==
    /\ last.op = "close"
    /\ last.result = "validation_failed"
    /\ "already_closed" \in last.errors
    /\ \E y \in DOMAIN years : years[y].status = CLOSED
    /\ Len(audits) > 0

\* C8: sequence enforcement on posting.  Whenever a step tags a transaction
\* with a period P (a new transaction, or an amended one whose period changes),
\* every period immediately before P was CLOSED when the step was taken.
C8_SequenceEnforced ==
    [][\A i \in TxnIds :
          (/\ i \in DOMAIN txns'
           /\ txns'[i].fiscal_year_id # None
           /\ (i \notin DOMAIN txns \/ txns[i].fiscal_year_id # txns'[i].fiscal_year_id)) =>
              \A p \in Predecessors(txns'[i].fiscal_year_id) : years[p].status = CLOSED]_vars

\* C9: closing seeds the next period.  A successful closePeriod with
\* createNextPeriod = true creates exactly one new period; it is OPEN and
\* is_current, and for every account of the tenant it has a balance row with
\* opening_balance = the closed period's closing_balance for the account,
\* total_income = 0, total_expense = 0, transaction_count = 0, is_final false.
C9_ClosingSeedsNextPeriod ==
    [][(last'.op = "close" /\ last'.result = "ok") =>
          \A t \in Tenants, y \in DOMAIN years, u \in Users, vc \in BOOLEAN :
              close_financial_year(t, y, u, vc, TRUE, NoFail) =>
                  LET new == (DOMAIN years') \ (DOMAIN years)
                  IN /\ Cardinality(new) = 1
                     /\ \A n \in new :
                          /\ years'[n].status = OPEN
                          /\ years'[n].is_current
                          /\ \A a \in RecalcAccounts(db, t, {}) :
                                /\ <<n, a>> \in DOMAIN balances'
                                /\ <<y, a>> \in DOMAIN balances'
                                /\ balances'[<<n, a>>].opening_balance =
                                       balances'[<<y, a>>].closing_balance
                                /\ balances'[<<n, a>>].total_income = 0
                                /\ balances'[<<n, a>>].total_expense = 0
                                /\ balances'[<<n, a>>].transaction_count = 0
                                /\ balances'[<<n, a>>].is_final = FALSE]_vars

\* a closing has just created the period after a closed period whose closing
\* balance differs from its opening balance, and seeded its row
C9_Witness ==
    /\ last.op = "close"
    /\ last.result = "ok"
    /\ \E y, n \in DOMAIN years : \E a \in DOMAIN accounts :
          /\ years[y].status = CLOSED
          /\ years[n].start_date = years[y].end_date + 1
          /\ years[n].is_current
          /\ <<y, a>> \in DOMAIN balances
          /\ <<n, a>> \in DOMAIN balances
          /\ balances[<<n, a>>].recalculation_count = 0
          /\ balances[<<y, a>>].closing_balance # balances[<<y, a>>].opening_balance
          /\ balances[<<n, a>>].opening_balance = balances[<<y, a>>].closing_balance

\* the fields of a balance row that a recalculation computes
ValueFields(r) ==
    <<r.opening_balance, r.closing_balance, r.total_income, r.total_expense,
      r.transaction_count>>

\* C10: recalculation is idempotent.  From any reachable state, calling
\* recalculate(S, accounts) twice in a row leaves every balance row with the
\* same opening_balance, closing_balance, total_income, total_expense and
\* transaction_count after the second call as after the first.
C10_RecalculationIdempotent ==
    \A t \in Tenants, S \in DOMAIN years, ids \in AccountLists :
        \A q1 \in OrderByStartDate(db, ChainYears(db, t, S)) :
            LET first == recalculate_cascade(db, t, S, ids, q1, NoFail).db
            IN \A q2 \in OrderByStartDate(first, ChainYears(first, t, S)) :
                  LET second == recalculate_cascade(first, t, S, ids, q2, NoFail).db
                  IN \A k \in DOMAIN first.balances :
                        ValueFields(second.balances[k]) = ValueFields(first.balances[k])

\* two periods whose date ranges share a day
Intersect(y, z) ==
    /\ years[y].start_date <= years[z].end_date
    /\ years[z].start_date <= years[y].end_date

\* C11: non-overlap invariant.  In every state reached by creating periods,
\* updating them (date edits of OPEN periods included) and closing them with
\* createNextPeriod, no two periods of one tenant have intersecting date
\* ranges.
C11_NonOverlap ==
    \A y \in DOMAIN years, z \in DOMAIN years :
        (y # z /\ years[y].tenant_id = years[z].tenant_id) => ~Intersect(y, z)

\* C12: at most one current period.  In every state reached by createPeriod,
\* period update, set-current and closePeriod, each tenant has at most one
\* period with is_current = TRUE.
C12_AtMostOneCurrent ==
    \A t \in Tenants :
        Cardinality({y \in DOMAIN years : years[y].tenant_id = t /\ years[y].is_current}) <= 1

\* C13: per-tenant mutual exclusion.  Two recalculations of one tenant are
\* never in flight together: at no time are two calls of the same tenant both
\* between their first read and their commit.
C13_MutualExclusion ==
    \A c1 \in DOMAIN calls, c2 \in DOMAIN calls :
        c1 # c2 => calls[c1].tenant_id # calls[c2].tenant_id

\* the (period, account) pairs a ledger step touches: those of every
\* transaction it adds, changes or removes, before and after the step
TouchedPairs ==
    LET changed == {i \in TxnIds :
                      \/ (i \in DOMAIN txns) # (i \in DOMAIN txns')
                      \/ (i \in DOMAIN txns /\ i \in DOMAIN txns' /\ txns[i] # txns'[i])}
    IN {<<txns[i].fiscal_year_id, txns[i].account_id>> : i \in changed \cap DOMAIN txns}
       \cup {<<txns'[i].fiscal_year_id, txns'[i].account_id>> : i \in changed \cap DOMAIN txns'}

\* the row of k = (period, account) carries the sums of the transactions tx
\* tagged to it
RowIsTrue(b, tx, k) ==
    /\ k \in DOMAIN b
    /\ b[k].total_income = TaggedSum(tx, k[1], k[2], INCOME)
    /\ b[k].total_expense = TaggedSum(tx, k[1], k[2], EXPENSE)
    /\ b[k].transaction_count = TaggedCount(tx, k[1], k[2])

\* C14: the amendment hook keeps frozen balances true.  Whenever a ledger
\* create, amend or delete of a transaction tagged to a CLOSED period returns
\* success, the balance row of that period and account has, on return,
\* total_income, total_expense and transaction_count equal to the sums over
\* the transactions then tagged to it.
C14_AmendmentHook ==
    [][(/\ last'.op \in {"create_transaction", "update_transaction", "delete_transaction"}
        /\ last'.result = "ok") =>
          \A k \in TouchedPairs :
             (k[1] # None /\ years'[k[1]].status = CLOSED) => RowIsTrue(balances', txns', k)]_vars

\* C15: period reassignment recalculates from the earlier period.  When an
\* amendment moves a transaction from period Pold to a different period Pnew
\* and the recalculation it triggers runs to its end, the rows of the
\* transaction's account in both Pold and Pnew are recomputed: each carries
\* the sums of the transactions tagged to it after the move.
C15_ReassignmentRecalculatesBoth ==
    [][(last'.op = "update_transaction" /\ last'.result = "ok") =>
          \A i \in DOMAIN txns :
             (/\ i \in DOMAIN txns'
              /\ txns[i].fiscal_year_id # None
              /\ txns'[i].fiscal_year_id # None
              /\ txns[i].fiscal_year_id # txns'[i].fiscal_year_id
              /\ txns[i].account_id = txns'[i].account_id
              /\ \E t \in Tenants, role \in Roles, b \in UpdateBodies :
                    update_transaction(t, role, i, b.account_id, b.category_id,
                                       b.amount, b.date, NoFail)) =>
                 /\ RowIsTrue(balances', txns', <<txns[i].fiscal_year_id, txns[i].account_id>>)
                 /\ RowIsTrue(balances', txns', <<txns'[i].fiscal_year_id, txns[i].account_id>>)]_vars

\* C16: an account change recalculates both accounts.  When an amendment
\* changes a transaction's account from A_old to A_new, a recalculation is
\* triggered (the transaction's period is CLOSED) and runs to its end, the
\* rows of both accounts in that period are recomputed: the row of A_old no
\* longer includes the moved transaction and the row of A_new does.
C16_AccountChangeRecalculatesBoth ==
    [][(last'.op = "update_transaction" /\ last'.result = "ok") =>
          \A i \in DOMAIN txns :
             (/\ i \in DOMAIN txns'
              /\ txns[i].account_id # txns'[i].account_id
              /\ txns'[i].fiscal_year_id # None
              /\ years[txns'[i].fiscal_year_id].status = CLOSED
              /\ \E t \in Tenants, role \in Roles, b \in UpdateBodies :
                    update_transaction(t, role, i, b.account_id, b.category_id,
                                       b.amount, b.date, NoFail)) =>
                 /\ RowIsTrue(balances', txns', <<txns'[i].fiscal_year_id, txns[i].account_id>>)
                 /\ RowIsTrue(balances', txns', <<txns'[i].fiscal_year_id, txns'[i].account_id>>)]_vars

\* C17: protected periods are never deleted.  A delete request for a period
\* that is CLOSED, or to which at least one transaction is tagged, fails and
\* leaves the period, its balance rows, its audit records and the period
\* reference of its transactions unchanged.
C17_ProtectedPeriodsKept ==
    [][last'.op = "delete_financial_year" =>
          \A t \in Tenants, y \in DOMAIN years :
             (/\ \/ years[y].status = CLOSED
                 \/ \E i \in DOMAIN txns : txns[i].fiscal_year_id = y
              /\ delete_financial_year(t, y)) =>
                 /\ last'.result # "ok"
                 /\ years' = years
                 /\ balances' = balances
                 /\ audits' = audits
                 /\ txns' = txns]_vars

\* the transactions tx tagged to CLOSED periods of ys, with their contents
ClosedTagged(tx, ys) ==
    LET ids == {i \in DOMAIN tx : /\ tx[i].fiscal_year_id \in DOMAIN ys
                                  /\ ys[tx[i].fiscal_year_id].status = CLOSED}
    IN [i \in ids |-> tx[i]]

\* a ledger step a user without the admin role can take: create_transaction
\* does not read the role, update_transaction and delete_transaction get it
NonAdminStep ==
    \/ /\ last'.op = "create_transaction"
       /\ \E t \in Tenants, a \in DOMAIN accounts, c \in Categories \cup {None},
             ttype \in {INCOME, EXPENSE}, amount \in Amounts, date \in Dates :
              create_transaction(t, a, c, ttype, amount, date)
    \/ /\ last'.op = "update_transaction"
       /\ \E t \in Tenants, id \in TxnIds, b \in UpdateBodies, fail \in Fails :
              update_transaction(t, "user", id, b.account_id, b.category_id,
                                 b.amount, b.date, fail)
    \/ /\ last'.op = "delete_transaction"
       /\ \E t \in Tenants, id \in TxnIds, fail \in Fails :
              delete_transaction(t, "user", id, fail)

\* C18: non-admins cannot touch the transactions of closed periods.  No
\* create, amendment or delete by a non-admin user changes the set or the
\* contents of the transactions tagged to CLOSED periods: creating one dated
\* in a CLOSED period, amending or deleting one tagged to a CLOSED period and
\* moving one's date into a CLOSED period are all turned away.
C18_NonAdminClosedPeriods ==
    [][NonAdminStep => ClosedTagged(txns', years') = ClosedTagged(txns, years)]_vars

\* C19: periods are closed strictly in chronological order.  closePeriod
\* succeeds only on a period whose immediate chronological predecessor is
\* CLOSED (or that has none), so that no closing leaves a CLOSED period right
\* after an OPEN one.
C19_ClosedInOrder ==
    [][(last'.op = "close" /\ last'.result = "ok") =>
          \A y \in DOMAIN years :
             (years[y].status = OPEN /\ years'[y].status = CLOSED) =>
                 \A p \in Predecessors(y) : years[p].status = CLOSED]_vars

\* the YearClosingAudit records with action CLOSE of period y
CloseAudits(a, y) ==
    {n \in 1..Len(a) : a[n].financial_year_id = y /\ a[n].action = CLOSE}

\* C20: a CLOSED period always has its audit record.  In every committed
\* state every period with status CLOSED has at least one YearClosingAudit
\* record with action CLOSE for that period, and each successful closePeriod
\* appends exactly one such record (and no other).
C20_ClosedHasAudit ==
    /\ [](\A y \in DOMAIN years : years[y].status = CLOSED => CloseAudits(audits, y) # {})
    /\ [][(last'.op = "close" /\ last'.result = "ok") =>
             \E y \in DOMAIN years :
                /\ years[y].status = OPEN
                /\ years'[y].status = CLOSED
                /\ Len(audits') = Len(audits) + 1
                /\ SubSeq(audits', 1, Len(audits)) = audits
                /\ Len(audits') \in CloseAudits(audits', y)]_vars

\* a second period has been closed: its record was appended to the first's
C20_Witness ==
    /\ last.op = "close"
    /\ last.result = "ok"
    /\ Len(audits) = 2
    /\ \A n \in 1..2 : years[audits[n].financial_year_id].status = CLOSED
    /\ audits[1].financial_year_id # audits[2].financial_year_id

\* C21: is_final tracks the closed status.  In every committed state a
\* balance row has is_final = TRUE if and only if its owning period is
\* CLOSED; that includes the rows a recalculation first creates after the
\* period was closed and the rows seeded for a newly created next period.
C21_FinalIffClosed ==
    \A k \in DOMAIN balances :
        balances[k].is_final <=> (years[k[1]].status = CLOSED)

\* a recalculation has just created the row of the second account in a period
\* that was closed before the account existed, next to a seeded next period
C21_Witness ==
    /\ last.op = "recalculate"
    /\ last.result = "ok"
    /\ \E y \in DOMAIN years, z \in DOMAIN years :
          /\ years[y].status = CLOSED
          /\ <<y, 1>> \in DOMAIN balances
          /\ <<y, 2>> \in DOMAIN balances
          /\ balances[<<y, 1>>].recalculation_count = 2
          /\ balances[<<y, 2>>].recalculation_count = 1
          /\ balances[<<y, 2>>].is_final
          /\ years[z].status = OPEN
          /\ <<z, 1>> \in DOMAIN balances
          /\ ~balances[<<z, 1>>].is_final

\* C22: opening balance of the starting period.  After a successful
\* recalculate(S, accounts), the row of S for each account in scope opens
\* with the closing balance of the row of the period immediately before S in
\* the tenant's full sequence of periods (a period outside the recalculated
\* chain), and with the account's base opening balance when S has no
\* predecessor.
C22_StartingPeriodOpening ==
    [][(last'.op = "recalculate" /\ last'.result = "ok") =>
          \A t \in Tenants, S \in DOMAIN years, ids \in {{}} \cup {{a} : a \in DOMAIN accounts} :
             recalculate(t, S, ids, NoFail) =>
                \A a \in RecalcAccounts(db, t, ids) :
                   /\ \A p \in Predecessors(S) :
                         <<p, a>> \in DOMAIN balances =>
                            balances'[<<S, a>>].opening_balance
                               = balances'[<<p, a>>].closing_balance
                   /\ Predecessors(S) = {} =>
                         balances'[<<S, a>>].opening_balance = accounts[a].opening_balance]_vars

\* C23: closing recalculates only the period being closed.  The
\* recalculation closePeriod(P) runs before freezing changes balance rows of
\* P only: a closing that creates no next period leaves the rows (values and
\* recalculation counters) of every other period as they were, and adds none.
C23_ClosingTouchesOwnPeriod ==
    [][last'.op = "close" =>
          \A t \in Tenants, P \in DOMAIN years, u \in Users, vc \in BOOLEAN, fail \in Fails :
             close_financial_year(t, P, u, vc, FALSE, fail) =>
                \A k \in (DOMAIN balances) \cup (DOMAIN balances') :
                   k[1] # P =>
                      /\ k \in DOMAIN balances
                      /\ k \in DOMAIN balances'
                      /\ balances'[k] = balances[k]]_vars

\* the entry a balance snapshot has for the row r of account a
SnapshotEntry(a, r) ==
    [account_id |-> a,
     opening_balance |-> r.opening_balance,
     closing_balance |-> r.closing_balance,
     total_income |-> r.total_income,
     total_expense |-> r.total_expense,
     transaction_count |-> r.transaction_count]

\* C24: frozen balances are current at the moment of closing.  In the
\* committed result of every successful closePeriod(P), each account of the
\* tenant has a row of P that is final and whose total_income, total_expense
\* and transaction_count are the sums over the transactions tagged to (P,
\* account) at that moment, and the snapshot of the audit record lists
\* exactly the values of those rows.
C24_FrozenBalancesCurrent ==
    [][(last'.op = "close" /\ last'.result = "ok") =>
          \A P \in DOMAIN years :
             (years[P].status = OPEN /\ years'[P].status = CLOSED) =>
                /\ \A a \in DOMAIN accounts :
                      accounts[a].tenant_id = years[P].tenant_id =>
                         /\ RowIsTrue(balances', txns', <<P, a>>)
                         /\ balances'[<<P, a>>].is_final
                /\ \A k \in DOMAIN balances' :
                      (k[1] = P /\ balances'[k].is_final) => RowIsTrue(balances', txns', k)
                /\ audits'[Len(audits')].balance_snapshot
                      = {SnapshotEntry(k[2], balances'[k]) : k \in {x \in DOMAIN balances' : x[1] = P}}]_vars

\* a period with a tagged transaction has just been closed
C24_Witness ==
    /\ last.op = "close"
    /\ last.result = "ok"
    /\ \E i \in DOMAIN txns :
          /\ txns[i].fiscal_year_id = audits[Len(audits)].financial_year_id
          /\ years[txns[i].fiscal_year_id].status = CLOSED
          /\ balances[<<txns[i].fiscal_year_id, txns[i].account_id>>].transaction_count = 1
          /\ \E e \in audits[Len(audits)].balance_snapshot : e.transaction_count = 1

\* the periods of the chain from S that no period of the chain starts after
LastOfChain(t, S) ==
    {y \in ChainYears(db, t, S) :
        \A z \in ChainYears(db, t, S) : years[z].start_date <= years[y].start_date}

\* C25: live balance after recalculation.  After a successful
\* recalculate(S, accounts), each account in scope has its live current
\* balance equal to the closing balance of its row in the chronologically
\* last period processed, and the accounts not in scope keep theirs.
C25_LiveBalanceAfterRecalculation ==
    [][(last'.op = "recalculate" /\ last'.result = "ok") =>
          \A t \in Tenants, S \in DOMAIN years, ids \in {{}} \cup {{a} : a \in DOMAIN accounts} :
             recalculate(t, S, ids, NoFail) =>
                /\ \A a \in RecalcAccounts(db, t, ids) :
                      \E y \in LastOfChain(t, S) :
                         accounts'[a].current_balance = balances'[<<y, a>>].closing_balance
                /\ \A a \in (DOMAIN accounts) \ RecalcAccounts(db, t, ids) :
                      accounts'[a] = accounts[a]]_vars

\* a recalculation for the first account alone has replaced its live balance,
\* which had counted a payment outside every period; the second account, with
\* no row at all, still has its own
C25_Witness ==
    /\ last.op = "recalculate"
    /\ last.result = "ok"
    /\ DOMAIN accounts = TwoAccounts
    /\ \E i \in DOMAIN txns : txns[i].account_id = 1 /\ txns[i].fiscal_year_id = None
    /\ \E y \in DOMAIN years :
          /\ <<y, 1>> \in DOMAIN balances
          /\ accounts[1].current_balance = balances[<<y, 1>>].closing_balance
          /\ accounts[1].current_balance = accounts[1].opening_balance
    /\ \A k \in DOMAIN balances : k[2] # 2
    /\ accounts[2].current_balance = accounts[2].opening_balance

\* C26: a current period is always OPEN.  In every reachable state no period
\* has both status CLOSED and is_current = TRUE.
C26_CurrentIsOpen ==
    \A y \in DOMAIN years : ~(years[y].status = CLOSED /\ years[y].is_current)

C28_AuditAppendOnly ==
    [][/\ Len(audits') >= Len(audits)
       /\ SubSeq(audits', 1, Len(audits)) = audits]_vars

\* an OPEN period has just been deleted while the trail holds the record of a
\* closed one
C28_Witness ==
    /\ last.op = "delete_financial_year"
    /\ last.result = "ok"
    /\ Len(audits) >= 1
    /\ \A n \in 1..Len(audits) : audits[n].financial_year_id \in DOMAIN years

\* what the database holds for tenants other than t: their periods, accounts
\* and transactions, every balance row that is theirs or is of one of their
\* periods or accounts, and their audit records
OthersOf(d, t) ==
    [years |-> [y \in {z \in DOMAIN d.years : d.years[z].tenant_id # t} |-> d.years[y]],
     accounts |-> [a \in {z \in DOMAIN d.accounts : d.accounts[z].tenant_id # t} |->
                     d.accounts[a]],
     txns |-> [i \in {z \in DOMAIN d.txns : d.txns[z].tenant_id # t} |-> d.txns[i]],
     balances |-> [k \in {z \in DOMAIN d.balances :
                            \/ d.balances[z].tenant_id # t
                            \/ z[1] \in DOMAIN d.years /\ d.years[z[1]].tenant_id # t
                            \/ z[2] \in DOMAIN d.accounts /\ d.accounts[z[2]].tenant_id # t}
                     |-> d.balances[k]],
     audits |-> SelectSeq(d.audits, LAMBDA r : r.tenant_id # t)]

\* a period of another tenant than t
ForeignYear(t, y) == y \in DOMAIN years /\ years[y].tenant_id # t

\* every balance row, transaction and audit record belongs to the tenant of its
\* period and of its account
TenantConsistent ==
    /\ \A k \in DOMAIN balances :
          /\ k[1] \in DOMAIN years => years[k[1]].tenant_id = balances[k].tenant_id
          /\ k[2] \in DOMAIN accounts => accounts[k[2]].tenant_id = balances[k].tenant_id
    /\ \A i \in DOMAIN txns :
          /\ accounts[txns[i].account_id].tenant_id = txns[i].tenant_id
          /\ txns[i].fiscal_year_id \in DOMAIN years =>
                years[txns[i].fiscal_year_id].tenant_id = txns[i].tenant_id
    /\ \A n \in 1..Len(audits) :
          audits[n].financial_year_id \in DOMAIN years =>
             years[audits[n].financial_year_id].tenant_id = audits[n].tenant_id

\* C29: tenant isolation.  recalculate, validateClosing and closePeriod called
\* for tenant T leave everything of every other tenant as it was: periods,
\* accounts with their live balances, transactions, balance rows and audit
\* records.  A period id of another tenant is answered as not found and
\* nothing is written; an account id of another tenant in the account list is
\* ignored.  The rows the unfiltered by-id queries reach are T's own, because
\* every row, transaction and audit record is of its period's and account's
\* tenant.
C29_TenantIsolation ==
    /\ []TenantConsistent
    /\ [][/\ last'.op = "recalculate" =>
                \A t \in BothTenants :
                   /\ \/ db' = db
                      \/ OthersOf(db', t) = OthersOf(db, t)
                      \/ \A y \in YearIds, ids \in TenantAccountLists, fail \in TenantFails :
                            ~recalculate(t, y, ids, fail)
                   /\ \A y \in YearIds :
                         ForeignYear(t, y) =>
                            \/ last'.result = "not_found" /\ db' = db
                            \/ \A ids \in TenantAccountLists, fail \in TenantFails :
                                  ~recalculate(t, y, ids, fail)
          /\ last'.op = "validate_closing" =>
                \A t \in BothTenants, y \in YearIds :
                   validate_closing(t, y) =>
                      /\ db' = db
                      /\ ForeignYear(t, y) =>
                            (last'.result = "not_found" /\ last'.errors = {"not_found"})
          /\ last'.op = "close" =>
                \A t \in BothTenants :
                   /\ \/ db' = db
                      \/ OthersOf(db', t) = OthersOf(db, t)
                      \/ \A y \in YearIds, u \in Users, vc \in {TRUE}, cn \in BOOLEAN,
                            fail \in TenantFails :
                            ~close_financial_year(t, y, u, vc, cn, fail)
                   /\ \A y \in YearIds :
                         ForeignYear(t, y) =>
                            \/ /\ last'.result = "validation_failed"
                               /\ last'.errors = {"not_found"}
                               /\ db' = db
                            \/ \A u \in Users, vc \in {TRUE}, cn \in BOOLEAN,
                                  fail \in TenantFails :
                                  ~close_financial_year(t, y, u, vc, cn, fail)]_vars

\* a recalculation has gone through while both tenants have a period with a
\* balance row of their account, and one of them a transaction
C29_Witness ==
    /\ last.op = "recalculate"
    /\ last.result = "ok"
    /\ DOMAIN txns # {}
    /\ \E y1, y2 \in DOMAIN years :
          /\ years[y1].tenant_id = 1
          /\ years[y2].tenant_id = 2
          /\ <<y1, 1>> \in DOMAIN balances
          /\ <<y2, 2>> \in DOMAIN balances

\* income minus expense over these transactions
RECURSIVE SignedTotal(_)
SignedTotal(ids) ==
    IF ids = {} THEN 0
    ELSE LET i == CHOOSE x \in ids : TRUE
             signed == IF txns[i].transaction_type = INCOME
                       THEN txns[i].amount ELSE 0 - txns[i].amount
         IN signed + SignedTotal(ids \ {i})

\* C30: live balance consistency.  After any sequence of ledger create, amend
\* and delete, invoice payment, recalculate and closePeriod, every account's
\* current balance equals its base opening balance plus the income minus the
\* expense of all its transactions, those tagged with no period and those of
\* periods before a recalculation's starting period included.
C30_LiveBalanceConsistent ==
    \A a \in DOMAIN accounts :
        accounts[a].current_balance =
            accounts[a].opening_balance
                + SignedTotal({i \in DOMAIN txns : txns[i].account_id = a})

====
